---- MODULE Spec2Model ----
EXTENDS Integers, Sequences, FiniteSets, TLC

(***************************************************************************)
(* A model of package uhc (src/transport.go): Transport.RoundTrip, its     *)
(* helpers dialContext, getRequestPort, getHttpRoundTripper,               *)
(* getH2RoundTripper and doHttpOverConn, and utlsHttpBody.                 *)
(*                                                                         *)
(* One RoundTrip invocation is a process (a member of Calls) that moves    *)
(* from one blocking point of the code to the next; the network, the TLS   *)
(* peer and the stock transports are the environment and decide how each   *)
(* blocking operation ends, or whether it ends at all.                     *)
(***************************************************************************)

\* ------------------------------------------------------------------ bounds
NumCalls == 2
MaxCloses == 2

Calls == 1..NumCalls

\* --------------------------------------------------------------- constants
maxHeaderListSize == 262144

\* utls.ClientHelloID: {Client, Version} (the seed and weights play no part)
EmptyClientHelloID == [Client |-> "", Version |-> ""]
HelloChrome_Auto == [Client |-> "Chrome", Version |-> "auto"]
HelloFirefox_Auto == [Client |-> "Firefox", Version |-> "auto"]
defaultClientHelloID == HelloChrome_Auto

ClientHelloIDs == {EmptyClientHelloID, HelloChrome_Auto, HelloFirefox_Auto}

\* The values of the Transport's fields. A *http.Transport / *http2.Transport
\* field is nil or points to a configured transport; ProxySocks5 is nil, a
\* socks5 URL, or a URL whose scheme proxy.FromURL does not know.
Transports ==
    [ClientHelloID : ClientHelloIDs,
     httpTransport : {"nil", "configured"},
     h2Transport : {"nil", "configured"},
     ProxySocks5 : {"nil", "socks5://proxy:1080", "bogus://proxy:1080"},
     Timeout : {0, 1},
     InsecureSkipVerify : BOOLEAN]

\* The requests: URL scheme, URL hostname (brackets of an IPv6 literal
\* stripped, as URL.Hostname does), URL port ("" when the URL has none), and
\* the protocol fields, which http.NewRequest sets to HTTP/1.1 and a
\* request literal leaves zero.
Schemes == {"http", "https", "ftp"}
Hostnames == {"example.com", "::1"}
Ports == {"", "8443"}
ProtoZero == [Proto |-> "", ProtoMajor |-> 0, ProtoMinor |-> 0]
ProtoHTTP11 == [Proto |-> "HTTP/1.1", ProtoMajor |-> 1, ProtoMinor |-> 1]
ProtoHTTP2 == [Proto |-> "HTTP/2.0", ProtoMajor |-> 2, ProtoMinor |-> 0]
Requests ==
    [Scheme : Schemes, Hostname : Hostnames, Port : Ports,
     proto : {ProtoZero, ProtoHTTP11}]
SecureRequests == {r \in Requests : r.Scheme = "https"}

\* What a handshake can report as the negotiated protocol.
ALPNs == {"h2", "http/1.1", "", "spdy/3"}

VARIABLES
    t,          \* the Transport (its configuration fields)
    h2Writes,   \* the calls that have assigned a field of t.h2Transport
    req,        \* req[i]: the *http.Request of call i
    pc,         \* pc[i]: where call i is
    ctx,        \* ctx[i]: the context call i dials and handshakes under
    uconn,      \* uconn[i]: the *utls.UConn of call i
    alpn,       \* alpn[i]: ConnectionState().NegotiatedProtocol
    resp,       \* resp[i]: the *http.Response call i returned
    err,        \* err[i]: the error call i returned, outermost message first
    body,       \* body[i]: the Body of resp[i]
    trace,      \* trace[i]: what call i has done, in order
    conns,      \* the connections dialed so far, by id
    closesByCaller  \* closesByCaller[i]: how often, at most, the caller of
                    \* call i calls Close on the body it got

vars == <<t, h2Writes, req, pc, ctx, uconn, alpn, resp, err, body, trace, conns,
          closesByCaller>>

\* ----------------------------------------------------------------- helpers
Ev(op, conn, arg) == [op |-> op, conn |-> conn, arg |-> arg]

Ops(i, op) == {k \in 1..Len(trace[i]) : trace[i][k].op = op}

NoUConn == [conn |-> 0, ServerName |-> "", InsecureSkipVerify |-> FALSE,
            clientHelloID |-> EmptyClientHelloID]
NoResp == [from |-> "nil", Body |-> "nil"]
NoBody == [conn |-> 0, closes |-> 0, rawCloses |-> 0, ret |-> "none", read |-> "none"]

\* (*ClientHelloID).IsSet of utls v1.6.7, called at src/transport.go:113. The
\* library's method reports TRUE for the zero value:
\*     return (p.Client == "") && (p.Version == "")
IsSet(p) == (p.Client = "") /\ (p.Version = "")

\* src/transport.go:112-115
clientHelloIDNoDefault(tr) == tr.ClientHelloID
clientHelloIDOf(tr) ==
    IF IsSet(tr.ClientHelloID) THEN defaultClientHelloID ELSE tr.ClientHelloID

\* src/transport.go:143-151
getRequestPortNoSchemeCheck(r) == IF r.Port # "" THEN r.Port ELSE "80"
getRequestPort(r) ==
    IF r.Port # "" THEN r.Port
    ELSE IF r.Scheme = "https" THEN "443"
    ELSE "80"

\* net.JoinHostPort, called at src/transport.go:117: a host holding a colon
\* (an IPv6 literal) is put in brackets.
HasColon(host) == host = "::1"
JoinHostPort(host, port) ==
    IF HasColon(host) THEN "[" \o host \o "]:" \o port
    ELSE host \o ":" \o port

\* src/transport.go:117
addressOf(r) == JoinHostPort(r.Hostname, getRequestPort(r))

\* src/transport.go:98-103: where RoundTrip sends a request
routeAllToSecure(r) == IF r.Scheme = "http" THEN "plaintext" ELSE "secure"
routeOf(r) ==
    IF r.Scheme = "http" THEN "plaintext"
    ELSE IF r.Scheme # "https" THEN "unsupported"
    ELSE "secure"

\* src/transport.go:169-175
getHttpRoundTripper(rt) == IF rt = "nil" THEN "defaultHttpTransport" ELSE rt

\* src/transport.go:153-167: which dialer dialContext uses. proxy.Dial is the
\* dialer of the environment's proxy settings; proxy.FromURL fails on a
\* scheme it does not know.
dialerFallsBack(tr) ==
    IF tr.ProxySocks5 = "socks5://proxy:1080" THEN [via |-> "socks5", err |-> "nil"]
    ELSE [via |-> "environment", err |-> "nil"]
dialerOf(tr) ==
    IF tr.ProxySocks5 = "nil" THEN [via |-> "environment", err |-> "nil"]
    ELSE IF tr.ProxySocks5 = "socks5://proxy:1080" THEN [via |-> "socks5", err |-> "nil"]
    ELSE [via |-> "none", err |-> "proxy: unknown scheme"]

\* net.Conn.Close called by this package on connection c
CloseConn(cs, c) ==
    [cs EXCEPT ![c].open = FALSE, ![c].closeCalls = @ + 1]

\* a return of RoundTrip: the deferred cancel() of src/transport.go:109 runs
CtxAtReturn(i) == IF ctx[i] \in {"live", "expired"} THEN "canceled" ELSE ctx[i]

\* ------------------------------------------------------------------- Init
InitCall(live, r) ==
    /\ h2Writes = {}
    /\ req = [i \in Calls |-> IF i \in live THEN r[i] ELSE
                [Scheme |-> "https", Hostname |-> "example.com", Port |-> "",
                 proto |-> ProtoHTTP11]]
    /\ pc = [i \in Calls |-> IF i \in live THEN "start" ELSE "idle"]
    /\ ctx = [i \in Calls |-> "request"]
    /\ uconn = [i \in Calls |-> NoUConn]
    /\ alpn = [i \in Calls |-> "none"]
    /\ resp = [i \in Calls |-> NoResp]
    /\ err = [i \in Calls |-> <<>>]
    /\ body = [i \in Calls |-> NoBody]
    /\ trace = [i \in Calls |-> <<>>]
    /\ conns = <<>>

\* one invocation (call 1; the other members of Calls never start), every
\* configuration and every request
Init ==
    /\ t \in Transports
    /\ closesByCaller = [i \in Calls |-> MaxCloses]
    /\ \E r \in [{1} -> Requests] : InitCall({1}, r)

\* concurrent invocations on one transport, the one process-wide setting
\* apart from the HTTP/2 base transport: every member of Calls starts, with a
\* plaintext or a secure request, and every caller closes its body at most
\* once
ConcTransports ==
    {tr \in Transports :
        /\ tr.ClientHelloID = EmptyClientHelloID
        /\ tr.httpTransport = "nil"
        /\ tr.h2Transport = "configured"
        /\ tr.ProxySocks5 = "nil"
        /\ tr.Timeout = 1
        /\ ~tr.InsecureSkipVerify}
ConcRequests ==
    {r \in Requests :
        /\ r.Scheme \in {"http", "https"}
        /\ r.Hostname = "example.com"
        /\ r.Port = ""
        /\ r.proto = ProtoHTTP11}
ConcInit ==
    /\ t \in ConcTransports
    /\ closesByCaller = [i \in Calls |-> 1]
    /\ \E r \in [Calls -> ConcRequests] : InitCall(Calls, r)

\* ---------------------------------------------------------------- actions
Record(i, evs) == [trace EXCEPT ![i] = @ \o evs]

\* RoundTrip returns (nil, e) before any connection exists
ReturnErrNoConn(i, e, evs) ==
    /\ pc' = [pc EXCEPT ![i] = "returned"]
    /\ err' = [err EXCEPT ![i] = e]
    /\ trace' = Record(i, evs)
    /\ UNCHANGED <<t, closesByCaller, h2Writes, req, uconn, alpn, resp, body, conns>>

\* src/transport.go:97-118: the scheme check, the derived context, the
\* choice of the dialer and the start of the dial
RoundTrip(i) ==
    /\ pc[i] = "start"
    /\ IF routeOf(req[i]) = "plaintext" THEN
          /\ pc' = [pc EXCEPT ![i] = "delegate"]
          /\ trace' = Record(i, <<Ev("stock.RoundTrip", 0,
                                     getHttpRoundTripper(t.httpTransport))>>)
          /\ UNCHANGED <<t, closesByCaller, h2Writes, req, ctx, uconn, alpn, resp, err, body, conns>>
       ELSE IF routeOf(req[i]) = "unsupported" THEN
          /\ ReturnErrNoConn(i, <<"unsupported scheme">>, <<>>)
          /\ UNCHANGED ctx
       ELSE LET d == dialerOf(t) IN
          IF d.err # "nil" THEN
             \* the context is derived at :108 and cancelled by the defer
             /\ ReturnErrNoConn(i, <<"dial failed", d.err>>,
                   (IF t.Timeout > 0 THEN <<Ev("WithTimeout", 0, "")>> ELSE <<>>)
                   \o <<Ev("dialContext", 0, addressOf(req[i]))>>)
             /\ ctx' = [ctx EXCEPT ![i] = IF t.Timeout > 0 THEN "canceled" ELSE @]
          ELSE
             /\ pc' = [pc EXCEPT ![i] = "dial"]
             /\ ctx' = [ctx EXCEPT ![i] = IF t.Timeout > 0 THEN "live" ELSE @]
             /\ trace' = Record(i,
                   (IF t.Timeout > 0 THEN <<Ev("WithTimeout", 0, "")>> ELSE <<>>)
                   \o <<Ev("dialContext", 0, addressOf(req[i])),
                        Ev(IF d.via = "socks5" THEN "socks5.DialContext"
                           ELSE "proxy.Dial", 0, addressOf(req[i]))>>)
             /\ UNCHANGED <<t, closesByCaller, h2Writes, req, uconn, alpn, resp, err, body, conns>>

\* what the stock transport can return: a response, or an error
StockResults ==
    {[resp |-> [from |-> "stock", Body |-> "stock"], err |-> <<>>],
     [resp |-> NoResp, err |-> <<"stock error">>]}

\* src/transport.go:99: what RoundTrip returns of the stock transport's result
stockResultWrapped(r) ==
    [resp |-> IF r.resp = NoResp THEN NoResp ELSE [r.resp EXCEPT !.Body = "utlsHttpBody"],
     err |-> IF r.err = <<>> THEN <<>> ELSE <<"http round trip failed">> \o r.err]
stockResult(r) == r

\* src/transport.go:99: the stock transport returns
StockReturn(i) ==
    /\ pc[i] = "delegate"
    /\ \E r \in StockResults :
          /\ trace' = Record(i, <<Ev("stock.returned", 0,
                                     IF r.err = <<>> THEN "response" ELSE r.err[1])>>)
          /\ resp' = [resp EXCEPT ![i] = stockResult(r).resp]
          /\ err' = [err EXCEPT ![i] = stockResult(r).err]
    /\ pc' = [pc EXCEPT ![i] = "returned"]
    /\ UNCHANGED <<t, closesByCaller, h2Writes, req, ctx, uconn, alpn, body, conns>>

\* the dial attempt call i is blocked in
DialOp(i) == trace[i][Len(trace[i])]

\* src/transport.go:123-127: the UConn made on the connection just dialed
UClientOnFirstConn(i, c) ==
    [conn |-> 1, ServerName |-> req[i].Hostname,
     InsecureSkipVerify |-> t.InsecureSkipVerify,
     clientHelloID |-> clientHelloIDOf(t)]
UClient(i, c) ==
    [conn |-> c, ServerName |-> req[i].Hostname,
     InsecureSkipVerify |-> t.InsecureSkipVerify,
     clientHelloID |-> clientHelloIDOf(t)]

\* src/transport.go:118-128: the dial succeeds; UClient wraps the connection
\* and the handshake starts
DialOk(i) ==
    /\ pc[i] = "dial"
    /\ LET c == Len(conns) + 1 IN
          /\ conns' = Append(conns,
                [dialedBy |-> i,
                 via |-> IF DialOp(i).op = "proxy.Dial" THEN "environment" ELSE "socks5",
                 address |-> DialOp(i).arg,
                 open |-> TRUE, closeCalls |-> 0, writes |-> 0, reads |-> 0])
          /\ uconn' = [uconn EXCEPT ![i] = UClient(i, c)]
          /\ trace' = Record(i, <<Ev("UClient", UClient(i, c).conn, ""),
                                  Ev("HandshakeContext", UClient(i, c).conn, "")>>)
    /\ pc' = [pc EXCEPT ![i] = "handshake"]
    /\ UNCHANGED <<t, closesByCaller, h2Writes, req, ctx, alpn, resp, err, body>>

\* a failed dial that is tried again, up to three attempts
DialRetries(i, cause) ==
    /\ pc[i] = "dial"
    /\ IF Cardinality(Ops(i, "proxy.Dial") \cup Ops(i, "socks5.DialContext")) < 3
       THEN /\ trace' = Record(i, <<trace[i][Len(trace[i])]>>)
            /\ UNCHANGED <<t, closesByCaller, h2Writes, req, pc, uconn, alpn, resp, err,
                           body, conns>>
            /\ ctx' = ctx
       ELSE /\ ReturnErrNoConn(i, <<"dial failed", cause>>, <<>>)
            /\ ctx' = [ctx EXCEPT ![i] = CtxAtReturn(i)]

\* src/transport.go:119-121: the dial fails
DialReturnsErr(i, cause) ==
    /\ pc[i] = "dial"
    /\ ReturnErrNoConn(i, <<"dial failed", cause>>, <<>>)
    /\ ctx' = [ctx EXCEPT ![i] = CtxAtReturn(i)]

DialFail(i) == DialReturnsErr(i, "connect error")

\* the dialers watch the context they are given (:155, :164)
DialAbort(i) ==
    /\ ctx[i] = "expired"
    /\ DialReturnsErr(i, "context deadline exceeded")

\* src/transport.go:128, 133: the handshake succeeds and reports a protocol
HandshakeOk(i) ==
    /\ pc[i] = "handshake"
    /\ \E a \in ALPNs : alpn' = [alpn EXCEPT ![i] = a]
    /\ pc' = [pc EXCEPT ![i] = "doHttpOverConn"]
    /\ UNCHANGED <<t, closesByCaller, h2Writes, req, ctx, uconn, resp, err, body, trace, conns>>

\* src/transport.go:128-131: the handshake fails; conn.Close()
HandshakeClosesConn(i, cs, cause) ==
    /\ pc[i] = "handshake"
    /\ conns' = CloseConn(cs, uconn[i].conn)
    /\ trace' = Record(i, <<Ev("Close", uconn[i].conn, "")>>)
    /\ err' = [err EXCEPT ![i] = <<"utls handshake failed", cause>>]
    /\ pc' = [pc EXCEPT ![i] = "returned"]
    /\ ctx' = [ctx EXCEPT ![i] = CtxAtReturn(i)]
    /\ UNCHANGED <<t, closesByCaller, h2Writes, req, uconn, alpn, resp, body>>

\* the same return without conn.Close(), as src/unnamed/part_000:120-123
HandshakeLeaksConn(i, cs, cause) ==
    /\ pc[i] = "handshake"
    /\ conns' = cs
    /\ trace' = trace
    /\ err' = [err EXCEPT ![i] = <<"utls handshake failed", cause>>]
    /\ pc' = [pc EXCEPT ![i] = "returned"]
    /\ ctx' = [ctx EXCEPT ![i] = CtxAtReturn(i)]
    /\ UNCHANGED <<t, closesByCaller, h2Writes, req, uconn, alpn, resp, body>>

\* a handshake error that is ignored: the request is written anyway
HandshakeErrIgnored(i, cs, cause) ==
    /\ pc[i] = "handshake"
    /\ conns' = cs
    /\ trace' = Record(i, <<Ev("Write", uconn[i].conn, "")>>)
    /\ pc' = [pc EXCEPT ![i] = "Write"]
    /\ UNCHANGED <<t, closesByCaller, h2Writes, req, ctx, uconn, alpn, resp, err, body>>

HandshakeReturnsErr(i, cs, cause) == HandshakeClosesConn(i, cs, cause)

HandshakeFail(i) == HandshakeReturnsErr(i, conns, "tls error")

\* HandshakeContext watches its context: when the context is done it closes
\* the connection under the handshake and returns the context's error
HandshakeAbort(i) ==
    /\ ctx[i] = "expired"
    /\ HandshakeReturnsErr(i, [conns EXCEPT ![uconn[i].conn].open = FALSE],
                           "context deadline exceeded")

\* src/transport.go:133-137: doHttpOverConn returned an error to RoundTrip;
\* uTlsConn.Close() and the wrapped error
DispatchClosesConn(i, inner) ==
    /\ conns' = CloseConn(conns, uconn[i].conn)
    /\ trace' = Record(i, <<Ev("Close", uconn[i].conn, "")>>)
    /\ err' = [err EXCEPT ![i] = <<"do http over conn failed">> \o inner]
    /\ pc' = [pc EXCEPT ![i] = "returned"]
    /\ ctx' = [ctx EXCEPT ![i] = CtxAtReturn(i)]
    /\ UNCHANGED <<t, closesByCaller, uconn, alpn, resp, body>>

\* the same return without uTlsConn.Close()
DispatchLeaksConn(i, inner) ==
    /\ conns' = conns
    /\ trace' = trace
    /\ err' = [err EXCEPT ![i] = <<"do http over conn failed">> \o inner]
    /\ pc' = [pc EXCEPT ![i] = "returned"]
    /\ ctx' = [ctx EXCEPT ![i] = CtxAtReturn(i)]
    /\ UNCHANGED <<t, closesByCaller, uconn, alpn, resp, body>>

DispatchReturnsErr(i, inner) == DispatchClosesConn(i, inner)

\* src/transport.go:139-140: the body is wrapped and the response returned
WrapAndReturn(i, from) ==
    /\ resp' = [resp EXCEPT ![i] = [from |-> from, Body |-> "utlsHttpBody"]]
    /\ body' = [body EXCEPT ![i] = [NoBody EXCEPT !.conn = uconn[i].conn]]
    /\ pc' = [pc EXCEPT ![i] = "returned"]
    /\ ctx' = [ctx EXCEPT ![i] = CtxAtReturn(i)]
    /\ UNCHANGED <<t, closesByCaller, uconn, alpn, err>>

\* src/transport.go:177-184: the transport NewClientConn is called on, and
\* whether a field of the configured transport is assigned on the way
getH2RoundTripper(rt) ==
    IF rt = "nil" THEN [rt |-> "defaultH2Transport", writes |-> FALSE]
    ELSE [rt |-> rt, writes |-> TRUE]

\* src/transport.go:186-217, to the first operation on the connection
dispatchAnyALPNAsHTTP1(a) == IF a = "h2" THEN "h2" ELSE "http/1.1"
dispatchEmptyAsUnsupported(a) ==
    IF a = "h2" THEN "h2" ELSE IF a = "http/1.1" THEN "http/1.1" ELSE "unsupported"
dispatchOf(a) ==
    IF a = "h2" THEN "h2"
    ELSE IF a \in {"http/1.1", ""} THEN "http/1.1"
    ELSE "unsupported"

doHttpOverConn(i) ==
    /\ pc[i] = "doHttpOverConn"
    /\ LET c == uconn[i].conn
           h2 == getH2RoundTripper(t.h2Transport)
       IN CASE dispatchOf(alpn[i]) = "h2" ->
                 /\ req' = [req EXCEPT ![i].proto = ProtoHTTP2]
                 /\ h2Writes' = IF h2.writes THEN h2Writes \cup {i} ELSE h2Writes
                 /\ trace' = Record(i, <<Ev("NewClientConn", c, h2.rt)>>)
                 /\ pc' = [pc EXCEPT ![i] = "NewClientConn"]
                 /\ UNCHANGED <<t, closesByCaller, ctx, uconn, alpn, resp, err, body, conns>>
            [] dispatchOf(alpn[i]) = "http/1.1" ->
                 /\ req' = [req EXCEPT ![i].proto = ProtoHTTP11]
                 /\ trace' = Record(i, <<Ev("Write", c, "")>>)
                 /\ pc' = [pc EXCEPT ![i] = "Write"]
                 /\ UNCHANGED <<t, closesByCaller, h2Writes, ctx, uconn, alpn, resp, err, body, conns>>
            [] OTHER ->
                 /\ DispatchReturnsErr(i, <<"unsupported ALPN">>)
                 /\ UNCHANGED <<h2Writes, req>>

\* src/transport.go:193-198: NewClientConn writes the client preface on the
\* connection it is given and the exchange starts
NewClientConnOk(i) ==
    /\ pc[i] = "NewClientConn"
    /\ conns' = [conns EXCEPT ![uconn[i].conn].writes = @ + 1]
    /\ trace' = Record(i, <<Ev("h2.RoundTrip", uconn[i].conn, "")>>)
    /\ pc' = [pc EXCEPT ![i] = "h2.RoundTrip"]
    /\ UNCHANGED <<t, closesByCaller, h2Writes, req, ctx, uconn, alpn, resp, err, body>>

\* src/transport.go:194-196
NewClientConnFail(i) ==
    /\ pc[i] = "NewClientConn"
    /\ DispatchReturnsErr(i, <<"get http/2 round tripper failed", "h2 error">>)
    /\ UNCHANGED <<h2Writes, req>>

\* src/transport.go:198-202, 139-140
H2RoundTripOk(i) ==
    /\ pc[i] = "h2.RoundTrip"
    /\ conns' = [conns EXCEPT ![uconn[i].conn].writes = @ + 1,
                              ![uconn[i].conn].reads = @ + 1]
    /\ trace' = Record(i, <<Ev("wrap", uconn[i].conn, "")>>)
    /\ WrapAndReturn(i, "h2")
    /\ UNCHANGED <<h2Writes, req>>

\* src/transport.go:199-201
H2RoundTripFail(i) ==
    /\ pc[i] = "h2.RoundTrip"
    /\ DispatchReturnsErr(i, <<"do http/2 request failed", "h2 error">>)
    /\ UNCHANGED <<h2Writes, req>>

\* src/transport.go:209-212: the request is written; the response is read
\* from the same connection
WriteOk(i) ==
    /\ pc[i] = "Write"
    /\ conns' = [conns EXCEPT ![uconn[i].conn].writes = @ + 1]
    /\ trace' = Record(i, <<Ev("ReadResponse", uconn[i].conn, "")>>)
    /\ pc' = [pc EXCEPT ![i] = "ReadResponse"]
    /\ UNCHANGED <<t, closesByCaller, h2Writes, req, ctx, uconn, alpn, resp, err, body>>

\* src/transport.go:209-211
WriteFail(i) ==
    /\ pc[i] = "Write"
    /\ DispatchReturnsErr(i, <<"write http/1.1 request failed", "write error">>)
    /\ UNCHANGED <<h2Writes, req>>

\* the same return with the connection closed on the way out, as a deferred
\* uTlsConn.Close() in RoundTrip would
ReadResponseOkClosesConn(i) ==
    /\ pc[i] = "ReadResponse"
    /\ conns' = CloseConn([conns EXCEPT ![uconn[i].conn].reads = @ + 1], uconn[i].conn)
    /\ trace' = Record(i, <<Ev("wrap", uconn[i].conn, "")>>)
    /\ WrapAndReturn(i, "http/1.1")
    /\ UNCHANGED <<h2Writes, req>>

\* src/transport.go:212, 139-140
ReadResponseOk(i) ==
    /\ pc[i] = "ReadResponse"
    /\ conns' = [conns EXCEPT ![uconn[i].conn].reads = @ + 1]
    /\ trace' = Record(i, <<Ev("wrap", uconn[i].conn, "")>>)
    /\ WrapAndReturn(i, "http/1.1")
    /\ UNCHANGED <<h2Writes, req>>

\* src/transport.go:212: the error of http.ReadResponse is returned as it is
ReadResponseFail(i) ==
    /\ pc[i] = "ReadResponse"
    /\ DispatchReturnsErr(i, <<"read error">>)
    /\ UNCHANGED <<h2Writes, req>>

\* the deadline of the context derived at src/transport.go:108 passes
Expire(i) ==
    /\ ctx[i] = "live"
    /\ ctx' = [ctx EXCEPT ![i] = "expired"]
    /\ UNCHANGED <<t, closesByCaller, h2Writes, req, pc, uconn, alpn, resp, err, body, trace, conns>>

\* src/transport.go:80-83: the caller closes the body of a response; the
\* raw body's Close returns r
CloseRawThenConn(i, r) ==
    /\ trace' = Record(i, <<Ev("rawBody.Close", 0, r), Ev("Close", body[i].conn, "")>>)
    /\ conns' = CloseConn(conns, body[i].conn)
    /\ body' = [body EXCEPT ![i].closes = @ + 1, ![i].rawCloses = @ + 1, ![i].ret = r]

\* a Close that returns early when the raw body's Close fails
CloseConnOnlyOnSuccess(i, r) ==
    IF r = "nil" THEN CloseRawThenConn(i, r)
    ELSE /\ trace' = Record(i, <<Ev("rawBody.Close", 0, r)>>)
         /\ conns' = conns
         /\ body' = [body EXCEPT ![i].closes = @ + 1, ![i].rawCloses = @ + 1, ![i].ret = r]

utlsHttpBodyClose(i, r) == CloseRawThenConn(i, r)

Close(i) ==
    /\ pc[i] = "returned"
    /\ resp[i].Body = "utlsHttpBody"
    /\ body[i].closes < closesByCaller[i]
    /\ \E r \in {"nil", "close error"} : utlsHttpBodyClose(i, r)
    /\ UNCHANGED <<t, closesByCaller, h2Writes, req, pc, ctx, uconn, alpn, resp, err>>

\* src/transport.go:76-78: Read is the raw body's Read, which reads from the
\* connection; nothing in it looks at the context RoundTrip derived
ReadableUnderDeadline(i) ==
    /\ conns[body[i].conn].open
    /\ body[i].rawCloses = 0
    /\ ctx[i] \notin {"expired", "canceled"}
Readable(i) ==
    /\ conns[body[i].conn].open
    /\ body[i].rawCloses = 0

\* src/transport.go:76-78: a Read of the body returns data
ReadOk(i) ==
    /\ pc[i] = "returned"
    /\ resp[i].Body = "utlsHttpBody"
    /\ Readable(i)
    /\ body' = [body EXCEPT ![i].read = "ok"]
    /\ UNCHANGED <<t, closesByCaller, h2Writes, req, pc, ctx, uconn, alpn, resp, err, trace, conns>>

\* src/transport.go:76-78: a Read of the body returns an error (the body or
\* the connection is closed, or the peer is gone)
ReadFail(i) ==
    /\ pc[i] = "returned"
    /\ resp[i].Body = "utlsHttpBody"
    /\ body' = [body EXCEPT ![i].read = "error"]
    /\ UNCHANGED <<t, closesByCaller, h2Writes, req, pc, ctx, uconn, alpn, resp, err, trace, conns>>

\* ------------------------------------------------------------------- Next
Next ==
    \E i \in Calls :
        \/ RoundTrip(i)
        \/ StockReturn(i)
        \/ DialOk(i)
        \/ DialFail(i)
        \/ DialAbort(i)
        \/ HandshakeOk(i)
        \/ HandshakeFail(i)
        \/ HandshakeAbort(i)
        \/ doHttpOverConn(i)
        \/ NewClientConnOk(i)
        \/ NewClientConnFail(i)
        \/ H2RoundTripOk(i)
        \/ H2RoundTripFail(i)
        \/ WriteOk(i)
        \/ WriteFail(i)
        \/ ReadResponseOk(i)
        \/ ReadResponseFail(i)
        \/ Expire(i)
        \/ Close(i)
        \/ ReadOk(i)
        \/ ReadFail(i)

Spec == Init /\ [][Next]_vars

ConcSpec == ConcInit /\ [][Next]_vars

\* ----------------------------------------------------------------- claims
ConnsOf(i) == {c \in DOMAIN conns : conns[c].dialedBy = i}
ReturnedErr(i) == pc[i] = "returned" /\ err[i] # <<>>
ReturnedOk(i) == pc[i] = "returned" /\ err[i] = <<>>
SecureOk(i) == ReturnedOk(i) /\ resp[i].Body = "utlsHttpBody"

\* C1: when a secure RoundTrip has returned an error, at whatever stage,
\* every connection the invocation dialed has been closed by it: the close is
\* the last thing the invocation did and the connection is not open.
C1_ErrorClosesConn ==
    \A i \in Calls :
        (req[i].Scheme = "https" /\ ReturnedErr(i)) =>
            \A c \in ConnsOf(i) :
                /\ ~conns[c].open
                /\ conns[c].closeCalls = 1
                /\ trace[i][Len(trace[i])] = Ev("Close", c, "")

\* a handshake has failed on a dialed connection and RoundTrip has returned
C1_Witness ==
    \E i \in Calls :
        /\ ReturnedErr(i)
        /\ err[i][1] = "utls handshake failed"
        /\ ConnsOf(i) # {}

\* what call i has done since its body was wrapped
AfterWrap(i) ==
    LET w == CHOOSE k \in Ops(i, "wrap") : TRUE
    IN SubSeq(trace[i], w + 1, Len(trace[i]))

\* C2: each Close of a returned body closes the raw body first and then the
\* connection, once, whatever the raw body's Close returned, and returns
\* what the raw body's Close returned.
C2_BodyCloseClosesBoth ==
    \A i \in Calls :
        SecureOk(i) =>
            LET n == body[i].closes
                tail == AfterWrap(i)
            IN /\ Len(tail) = 2 * n
               /\ \A k \in 1..n :
                     /\ tail[2 * k - 1].op = "rawBody.Close"
                     /\ tail[2 * k] = Ev("Close", body[i].conn, "")
               /\ n > 0 => body[i].ret = tail[2 * n - 1].arg
               /\ conns[body[i].conn].closeCalls = n
               /\ n > 0 => ~conns[body[i].conn].open

\* a body's Close whose raw-body close failed has returned
C2_Witness ==
    \E i \in Calls :
        /\ SecureOk(i)
        /\ body[i].closes = 1
        /\ body[i].ret = "close error"
        /\ conns[body[i].conn].closeCalls = 1

\* the steps of a secure RoundTrip that wait for the network or the peer
BlockingSteps ==
    {"dial", "handshake", "NewClientConn", "h2.RoundTrip", "Write", "ReadResponse"}

\* the steps by which a call stops waiting because its deadline has passed
DeadlineAbort(i) == DialAbort(i) \/ HandshakeAbort(i)

\* C3: the configured timeout bounds dial, handshake, request transmission
\* and response-header receipt: whenever the deadline has passed while a call
\* waits in one of these steps, the call can abort the step and return.
\* doHttpOverConn is handed req, not the derived context (:133), req.Write
\* and http.ReadResponse take no context, the HTTP/2 exchange runs under
\* req.Context(), and no deadline is set on the connection: a step of the
\* dispatch that waits has nothing to wake it when the deadline passes.
C3_DeadlineBoundsEveryStep ==
    \A i \in Calls :
        (t.Timeout > 0 /\ ctx[i] = "expired" /\ pc[i] \in BlockingSteps) =>
            ENABLED DeadlineAbort(i)

\* the part of C3 the code keeps: the deadline bounds dial and handshake
C3_DeadlineBoundsDialAndHandshake ==
    \A i \in Calls :
        (t.Timeout > 0 /\ ctx[i] = "expired" /\ pc[i] \in {"dial", "handshake"}) =>
            ENABLED DeadlineAbort(i)

\* the protocols doHttpOverConn knows
Supported == {"h2", "http/1.1", ""}

\* call i has gone through the switch of doHttpOverConn
Dispatched(i) ==
    /\ alpn[i] # "none"
    /\ pc[i] # "doHttpOverConn"

OpsOn(i, op) == {trace[i][k].conn : k \in Ops(i, op)}

\* C4: after dispatch on "h2" the request is marked HTTP/2.0 and the exchange
\* goes through a client connection made on the call's secure stream, with
\* no direct write; after dispatch on "http/1.1" or "" the request is marked
\* HTTP/1.1, it is written to the secure stream and the response is read
\* from that stream, with no HTTP/2 client connection.
C4_DispatchByProtocol ==
    \A i \in Calls :
        Dispatched(i) =>
            /\ alpn[i] = "h2" =>
                  /\ req[i].proto = ProtoHTTP2
                  /\ OpsOn(i, "NewClientConn") = {uconn[i].conn}
                  /\ OpsOn(i, "h2.RoundTrip") \subseteq {uconn[i].conn}
                  /\ Ops(i, "Write") \cup Ops(i, "ReadResponse") = {}
                  /\ resp[i].from \in {"nil", "h2"}
            /\ alpn[i] \in {"http/1.1", ""} =>
                  /\ req[i].proto = ProtoHTTP11
                  /\ OpsOn(i, "Write") = {uconn[i].conn}
                  /\ OpsOn(i, "ReadResponse") \subseteq {uconn[i].conn}
                  /\ Ops(i, "NewClientConn") \cup Ops(i, "h2.RoundTrip") = {}
                  /\ resp[i].from \in {"nil", "http/1.1"}
                  /\ resp[i].from = "http/1.1" => OpsOn(i, "ReadResponse") = {uconn[i].conn}

\* a handshake that negotiated nothing was served over HTTP/1.1
C4_Witness ==
    \E i \in Calls :
        /\ SecureOk(i)
        /\ alpn[i] = ""
        /\ resp[i].from = "http/1.1"
        /\ conns[uconn[i].conn].writes = 1
        /\ conns[uconn[i].conn].reads = 1

\* C5: on a negotiated protocol other than "h2", "http/1.1" and "" the
\* dispatch step leaves the request's protocol fields as they were, writes
\* nothing to the stream, and RoundTrip returns the unsupported-protocol
\* error.
C5_UnsupportedProtocol ==
    [][\A i \in Calls :
          (pc[i] = "doHttpOverConn" /\ alpn[i] \notin Supported /\ pc'[i] # pc[i]) =>
              /\ pc'[i] = "returned"
              /\ err'[i] = <<"do http over conn failed", "unsupported ALPN">>
              /\ resp'[i] = NoResp
              /\ req'[i] = req[i]
              /\ conns'[uconn[i].conn].writes = 0
              /\ Len(trace'[i]) = Len(trace[i]) + 1
              /\ trace'[i][Len(trace'[i])].op = "Close"]_vars

\* a call whose handshake negotiated "spdy/3" has returned, its request's
\* protocol fields still zero
C5_Witness ==
    \E i \in Calls :
        /\ ReturnedErr(i)
        /\ alpn[i] = "spdy/3"
        /\ err[i] = <<"do http over conn failed", "unsupported ALPN">>
        /\ req[i].proto = ProtoZero
        /\ conns[uconn[i].conn].writes = 0

\* the dial attempts of call i
DialOps(i) == Ops(i, "proxy.Dial") \cup Ops(i, "socks5.DialContext")

\* C6: a request whose scheme is neither "http" nor "https" is refused with
\* the unsupported-scheme error, and the call has done nothing else: no
\* delegation, no derived context, no dial, no handshake.
C6_UnsupportedScheme ==
    \A i \in Calls :
        (req[i].Scheme \notin {"http", "https"} /\ pc[i] \notin {"idle", "start"}) =>
            /\ pc[i] = "returned"
            /\ err[i] = <<"unsupported scheme">>
            /\ resp[i] = NoResp
            /\ trace[i] = <<>>
            /\ ConnsOf(i) = {}
            /\ uconn[i] = NoUConn
            /\ ctx[i] = "request"

\* an ftp request has been refused
C6_Witness ==
    \E i \in Calls :
        /\ req[i].Scheme = "ftp"
        /\ pc[i] = "returned"
        /\ err[i] = <<"unsupported scheme">>

\* C7: a plaintext request goes to the stock transport, the configured one
\* or else the default, and what that transport returns is what RoundTrip
\* returns; the call derives no timeout context, dials nothing, handshakes
\* nothing, dispatches nothing and wraps no body.
C7_PlaintextDelegates ==
    \A i \in Calls :
        (req[i].Scheme = "http" /\ pc[i] \notin {"idle", "start"}) =>
            /\ pc[i] \in {"delegate", "returned"}
            /\ trace[i][1] = Ev("stock.RoundTrip", 0,
                                IF t.httpTransport = "nil" THEN "defaultHttpTransport"
                                ELSE "configured")
            /\ \A k \in 2..Len(trace[i]) : k = 2 /\ trace[i][k].op = "stock.returned"
            /\ ctx[i] = "request"
            /\ ConnsOf(i) = {}
            /\ uconn[i] = NoUConn
            /\ alpn[i] = "none"
            /\ body[i] = NoBody
            /\ pc[i] = "returned" =>
                  /\ Len(trace[i]) = 2
                  /\ trace[i][2].arg = "response" =>
                        resp[i] = [from |-> "stock", Body |-> "stock"] /\ err[i] = <<>>
                  /\ trace[i][2].arg # "response" =>
                        resp[i] = NoResp /\ err[i] = <<trace[i][2].arg>>

\* a plaintext request on a transport with a timeout and a configured stock
\* transport has returned that transport's response
C7_Witness ==
    \E i \in Calls :
        /\ req[i].Scheme = "http"
        /\ t.Timeout > 0
        /\ t.httpTransport = "configured"
        /\ pc[i] = "returned"
        /\ resp[i].from = "stock"

\* C8: with a SOCKS5 proxy configured every dial goes through the proxy
\* dialer, to the request's host:port, and a proxy dialer that cannot be
\* made fails the call with a dial error without any dial; with no proxy
\* configured the dial goes through the environment's dialer.
C8_ProxyAlwaysUsed ==
    \A i \in Calls :
        /\ \A k \in DialOps(i) :
              /\ trace[i][k].op =
                    (IF t.ProxySocks5 = "nil" THEN "proxy.Dial" ELSE "socks5.DialContext")
              /\ trace[i][k].arg = addressOf(req[i])
        /\ \A c \in ConnsOf(i) :
              /\ conns[c].via = (IF t.ProxySocks5 = "nil" THEN "environment" ELSE "socks5")
              /\ conns[c].address = addressOf(req[i])
        /\ (req[i].Scheme = "https" /\ pc[i] \notin {"idle", "start"}) =>
              IF t.ProxySocks5 = "bogus://proxy:1080"
              THEN /\ DialOps(i) = {}
                   /\ pc[i] = "returned"
                   /\ err[i] = <<"dial failed", "proxy: unknown scheme">>
              ELSE Cardinality(DialOps(i)) = 1

\* a connection has been dialed through the configured proxy
C8_Witness ==
    \E i \in Calls : \E c \in ConnsOf(i) :
        /\ t.ProxySocks5 = "socks5://proxy:1080"
        /\ conns[c].via = "socks5"
        /\ conns[c].address = "example.com:8443"

\* C9: every handshake runs with the configured ClientHelloID when one is
\* configured and with HelloChrome_Auto when none is, never with the empty
\* one.
C9_ClientHelloID ==
    \A i \in Calls :
        uconn[i].conn # 0 =>
            /\ uconn[i].clientHelloID # EmptyClientHelloID
            /\ uconn[i].clientHelloID =
                  (IF t.ClientHelloID = EmptyClientHelloID THEN HelloChrome_Auto
                   ELSE t.ClientHelloID)

\* a transport without a ClientHelloID has completed a handshake as Chrome
C9_Witness ==
    \E i \in Calls :
        /\ t.ClientHelloID = EmptyClientHelloID
        /\ alpn[i] # "none"
        /\ uconn[i].clientHelloID = HelloChrome_Auto

\* the address to dial for each request of the model, written out
ExpectedAddress(r) ==
    IF r.Hostname = "example.com"
    THEN (IF r.Port = "8443" THEN "example.com:8443" ELSE "example.com:443")
    ELSE (IF r.Port = "8443" THEN "[::1]:8443" ELSE "[::1]:443")

\* C10: the address dialed is the hostname joined with the URL's port when
\* it has one and with 443 when a secure URL has none; the port of a
\* plaintext request whose URL has none is 80.
C10_TargetAddress ==
    \A i \in Calls :
        /\ \A k \in DialOps(i) : trace[i][k].arg = ExpectedAddress(req[i])
        /\ \A c \in ConnsOf(i) : conns[c].address = ExpectedAddress(req[i])
        /\ req[i].Scheme = "http" =>
              getRequestPort(req[i]) = (IF req[i].Port = "" THEN "80" ELSE req[i].Port)

\* a secure request without a port has been dialed on port 443
C10_Witness ==
    \E i \in Calls : \E c \in ConnsOf(i) :
        /\ req[i].Port = ""
        /\ conns[c].address = "example.com:443"

\* call i, about to run getH2RoundTripper, will assign a field of the
\* configured HTTP/2 transport (src/transport.go:182)
AssignsH2Transport(i) ==
    /\ pc[i] = "doHttpOverConn"
    /\ dispatchOf(alpn[i]) = "h2"
    /\ getH2RoundTripper(t.h2Transport).writes

\* call j is inside the configured HTTP/2 transport, which reads its fields
UsesH2Transport(j) ==
    /\ pc[j] \in {"NewClientConn", "h2.RoundTrip"}
    /\ t.h2Transport = "configured"

\* C11: concurrent invocations share only read-only configuration: no
\* invocation has assigned a field of the transport or of the configured
\* base transport, and none is about to while another one uses it.
C11_NoSharedWrites ==
    /\ h2Writes = {}
    /\ \A i, j \in Calls : i # j => ~(AssignsH2Transport(i) /\ UsesH2Transport(j))

\* C12: a secure invocation calls dialContext once, which dials once (not at
\* all when the proxy dialer cannot be made), so it has at most one
\* connection; it handshakes at most once and dispatches at most once, with
\* no step repeated; the HTTP/2 client connection is made on the one
\* connection the call dialed.
C12_OneAttemptEach ==
    \A i \in Calls :
        (req[i].Scheme = "https" /\ pc[i] \notin {"idle", "start"}) =>
            /\ Cardinality(Ops(i, "dialContext")) = 1
            /\ Cardinality(DialOps(i)) =
                  (IF dialerOf(t).err = "nil" THEN 1 ELSE 0)
            /\ Cardinality(ConnsOf(i)) <= 1
            /\ Cardinality(Ops(i, "UClient")) <= 1
            /\ Cardinality(Ops(i, "HandshakeContext")) <= 1
            /\ Cardinality(Ops(i, "NewClientConn") \cup Ops(i, "Write")) <= 1
            /\ Cardinality(Ops(i, "h2.RoundTrip")) <= 1
            /\ Cardinality(Ops(i, "ReadResponse")) <= 1
            /\ Cardinality(Ops(i, "wrap")) <= 1
            /\ OpsOn(i, "NewClientConn") \cup OpsOn(i, "h2.RoundTrip") \subseteq ConnsOf(i)

\* an HTTP/2 exchange has succeeded over the one connection of its call
C12_Witness ==
    \E i \in Calls :
        /\ SecureOk(i)
        /\ resp[i].from = "h2"
        /\ Cardinality(ConnsOf(i)) = 1
        /\ Cardinality(DialOps(i)) = 1

\* the Close calls call i has made on connection c
ClosesBy(i, c) == {k \in Ops(i, "Close") : trace[i][k].conn = c}

\* C13: whatever the interleaving of concurrent invocations, everything an
\* invocation does to a connection (handshake, dispatch, wrap, body Close)
\* it does to the connection it dialed itself, and a connection has been
\* closed only by the invocation that dialed it.
C13_OwnConnectionOnly ==
    /\ \A i \in Calls :
          /\ \A k \in 1..Len(trace[i]) :
                trace[i][k].conn # 0 => trace[i][k].conn \in ConnsOf(i)
          /\ uconn[i].conn # 0 => uconn[i].conn \in ConnsOf(i)
          /\ body[i].conn # 0 => body[i].conn = uconn[i].conn
    /\ \A c \in DOMAIN conns :
          conns[c].closeCalls = Cardinality(ClosesBy(conns[c].dialedBy, c))

\* two invocations have each got a response over the shared HTTP/2 base
\* transport; one body is closed and the other's connection is still open
C13_Witness ==
    \E i, j \in Calls :
        /\ i # j
        /\ SecureOk(i) /\ resp[i].from = "h2"
        /\ SecureOk(j) /\ resp[j].from = "h2"
        /\ body[i].closes = 1
        /\ body[j].conn # body[i].conn
        /\ conns[body[j].conn].open

\* C14: once RoundTrip has returned a response, the timeout is spent: with
\* the derived context expired or cancelled, the connection has not been
\* closed and a Read of the body can still succeed, as long as the caller
\* has not closed the body.
C14_TimeoutEndsAtReturn ==
    \A i \in Calls :
        (SecureOk(i) /\ t.Timeout > 0 /\ body[i].closes = 0) =>
            /\ ctx[i] = "canceled"
            /\ conns[body[i].conn].open
            /\ conns[body[i].conn].closeCalls = 0
            /\ ENABLED ReadOk(i)

\* a body has been read successfully after the return cancelled the context
C14_Witness ==
    \E i \in Calls :
        /\ SecureOk(i)
        /\ t.Timeout > 0
        /\ ctx[i] = "canceled"
        /\ body[i].read = "ok"
        /\ body[i].closes = 0

\* the first and the last place of an operation in the trace of call i (0
\* when it has not happened)
First(i, ops) ==
    LET ks == {k \in 1..Len(trace[i]) : trace[i][k].op \in ops}
    IN IF ks = {} THEN 0 ELSE CHOOSE k \in ks : \A m \in ks : k <= m
Last(i, ops) ==
    LET ks == {k \in 1..Len(trace[i]) : trace[i][k].op \in ops}
    IN IF ks = {} THEN 0 ELSE CHOOSE k \in ks : \A m \in ks : k >= m

DialOpNames == {"dialContext", "proxy.Dial", "socks5.DialContext"}
HandshakeOpNames == {"UClient", "HandshakeContext"}
DispatchOpNames == {"NewClientConn", "h2.RoundTrip", "Write", "ReadResponse"}

\* C15: a secure invocation dials, then handshakes, then dispatches, then
\* wraps the body, each only after the one before succeeded: a handshake
\* only on a dialed connection, a dispatch only after a handshake that
\* reported a protocol, a wrap only after an exchange that produced a
\* response; after a failed dial nothing follows, after a failed handshake
\* no dispatch and no HTTP byte.
C15_StepOrder ==
    \A i \in Calls :
        req[i].Scheme = "https" =>
            /\ First(i, HandshakeOpNames) # 0 =>
                  /\ Last(i, DialOpNames) # 0
                  /\ Last(i, DialOpNames) < First(i, HandshakeOpNames)
                  /\ ConnsOf(i) # {}
            /\ First(i, DispatchOpNames) # 0 =>
                  /\ Last(i, HandshakeOpNames) # 0
                  /\ Last(i, HandshakeOpNames) < First(i, DispatchOpNames)
                  /\ alpn[i] \in Supported
            /\ First(i, {"wrap"}) # 0 =>
                  /\ Last(i, DispatchOpNames) # 0
                  /\ Last(i, DispatchOpNames) < First(i, {"wrap"})
                  /\ Last(i, {"h2.RoundTrip", "ReadResponse"}) # 0
                  /\ err[i] = <<>>
                  /\ resp[i].from \in {"h2", "http/1.1"}
            /\ (ReturnedErr(i) /\ err[i][1] = "dial failed") =>
                  /\ First(i, HandshakeOpNames \cup DispatchOpNames \cup {"wrap"}) = 0
                  /\ ConnsOf(i) = {}
            /\ (ReturnedErr(i) /\ err[i][1] = "utls handshake failed") =>
                  /\ First(i, DispatchOpNames \cup {"wrap"}) = 0
                  /\ alpn[i] = "none"
                  /\ \A c \in ConnsOf(i) : conns[c].writes = 0
            /\ (pc[i] = "handshake" \/ pc[i] = "dial") =>
                  First(i, DispatchOpNames \cup {"wrap"}) = 0

\* a handshake has failed on a dialed connection: nothing was dispatched
C15_Witness ==
    \E i \in Calls :
        /\ ReturnedErr(i)
        /\ err[i][1] = "utls handshake failed"
        /\ First(i, HandshakeOpNames) # 0
        /\ First(i, DispatchOpNames) = 0

\* C16: a connection has been closed by this package only if its invocation
\* returned an error or the body of its response has been closed; after a
\* successful return it is open until the first Close of the body.
C16_OpenUntilBodyClose ==
    /\ \A c \in DOMAIN conns :
          conns[c].closeCalls > 0 =>
              \/ ReturnedErr(conns[c].dialedBy)
              \/ body[conns[c].dialedBy].closes > 0
    /\ \A i \in Calls :
          (SecureOk(i) /\ body[i].closes = 0) =>
              /\ conns[body[i].conn].open
              /\ conns[body[i].conn].closeCalls = 0

\* a response has been returned and read, its connection open, its body not
\* yet closed
C16_Witness ==
    \E i \in Calls :
        /\ SecureOk(i)
        /\ body[i].closes = 0
        /\ body[i].read = "ok"
        /\ conns[body[i].conn].open

\* C17 as stated: over the whole lifetime of an invocation and its response,
\* Close is invoked on the connection at most once, and exactly once after
\* one or more calls of the body's Close.
C17_CloseInvokedAtMostOnce ==
    \A c \in DOMAIN conns :
        /\ conns[c].closeCalls <= 1
        /\ body[conns[c].dialedBy].closes >= 1 => conns[c].closeCalls = 1

\* C17: an error path of RoundTrip invokes Close on the connection once;
\* after a successful return every call of the body's Close invokes it once
\* more, so k calls make k invocations; the connection goes from open to
\* closed at the first of them and is never reopened.
C17_CloseInvokedPerBodyClose ==
    \A c \in DOMAIN conns :
        LET i == conns[c].dialedBy
        IN /\ conns[c].closeCalls =
                 IF ReturnedErr(i) THEN 1
                 ELSE IF SecureOk(i) /\ body[i].conn = c THEN body[i].closes
                 ELSE 0
           /\ conns[c].open <=> conns[c].closeCalls = 0

\* the body has been closed twice and Close invoked twice on the connection
C17_Witness ==
    \E i \in Calls :
        /\ SecureOk(i)
        /\ body[i].closes = 2
        /\ conns[body[i].conn].closeCalls = 2
        /\ ~conns[body[i].conn].open

\* the stage at which a secure invocation that returned an error failed,
\* read from what it did
FailedAt(i) ==
    IF Last(i, {"ReadResponse"}) # 0 THEN "http/1.1 read"
    ELSE IF Last(i, {"Write"}) # 0 THEN "http/1.1 write"
    ELSE IF Last(i, {"h2.RoundTrip"}) # 0 THEN "http/2 exchange"
    ELSE IF Last(i, {"NewClientConn"}) # 0 THEN "http/2 adapter"
    ELSE IF alpn[i] # "none" THEN "unsupported protocol"
    ELSE IF Last(i, {"HandshakeContext"}) # 0 THEN "handshake"
    ELSE "dial"

DispatchStages ==
    {"http/1.1 read", "http/1.1 write", "http/2 exchange", "http/2 adapter",
     "unsupported protocol"}

\* the annotations RoundTrip and doHttpOverConn put in front of a cause
StageAnnotations ==
    {"dial failed", "utls handshake failed", "do http over conn failed"}
SubStageAnnotations ==
    {"get http/2 round tripper failed", "do http/2 request failed",
     "write http/1.1 request failed", "unsupported ALPN"}

\* the annotations of an error, outermost first, without its cause
AnnotationsOf(e) ==
    SelectSeq(e, LAMBDA m : m \in StageAnnotations \cup SubStageAnnotations)

\* C18: every error a secure RoundTrip returns names its stage, dial,
\* handshake or dispatch, and a dispatch error names in addition the
\* sub-stage it comes from, so that errors of two different stages never
\* carry the same annotations.
C18_ErrorNamesStage ==
    /\ \A i \in Calls :
          (ReturnedErr(i) /\ req[i].Scheme = "https") =>
              /\ err[i][1] =
                    IF FailedAt(i) = "dial" THEN "dial failed"
                    ELSE IF FailedAt(i) = "handshake" THEN "utls handshake failed"
                    ELSE "do http over conn failed"
              /\ FailedAt(i) \in DispatchStages =>
                    Len(AnnotationsOf(err[i])) = 2
              /\ FailedAt(i) \notin DispatchStages =>
                    Len(AnnotationsOf(err[i])) = 1
    /\ \A i, j \in Calls :
          (/\ ReturnedErr(i) /\ req[i].Scheme = "https"
           /\ ReturnedErr(j) /\ req[j].Scheme = "https"
           /\ FailedAt(i) # FailedAt(j)) =>
              AnnotationsOf(err[i]) # AnnotationsOf(err[j])

\* ------------------------------------- the UtlsHttpRoundTripper revision
\* src/unnamed/part_000: the round tripper this package had before Transport.
\* It has no scheme check, no derived context and one fixed ClientHello.
LegacyBases == {"nil", "*http.Transport", "*http2.Transport", "other"}
UtlsHttpRoundTrippers ==
    [Base : LegacyBases,
     Ctx : {"nil", "caller"},
     Timeout : {0, 1},
     ProxySocks5 : {"nil", "socks5://proxy:1080", "bogus://proxy:1080"}]

LegacyInit ==
    /\ t \in UtlsHttpRoundTrippers
    /\ closesByCaller = [i \in Calls |-> MaxCloses]
    /\ \E r \in [{1} -> Requests] : InitCall({1}, r)

\* src/unnamed/part_000:93-101: the port is defaulted for https and http only
U_port(r) ==
    IF r.Port # "" THEN r.Port
    ELSE IF r.Scheme = "https" THEN "443"
    ELSE IF r.Scheme = "http" THEN "80"
    ELSE ""

\* src/unnamed/part_000:112, 114: fmt.Sprintf("%s:%s", hostname, port)
U_address(r) == r.Hostname \o ":" \o U_port(r)

\* src/unnamed/part_000:86-115: u.Ctx is filled in, the dialer chosen and the
\* dial started; an error of proxy.FromURL is returned as it is
U_RoundTrip(i) ==
    /\ pc[i] = "start"
    /\ t' = [t EXCEPT !.Ctx = IF @ = "nil" THEN "background" ELSE @]
    /\ IF t.ProxySocks5 \notin {"nil", "socks5://proxy:1080"} THEN
          /\ pc' = [pc EXCEPT ![i] = "returned"]
          /\ err' = [err EXCEPT ![i] = <<"proxy: unknown scheme">>]
          /\ trace' = Record(i, <<Ev("proxy.FromURL", 0, t.ProxySocks5)>>)
       ELSE
          /\ pc' = [pc EXCEPT ![i] = "dial"]
          /\ err' = err
          /\ trace' = Record(i,
                <<Ev(IF t.ProxySocks5 = "nil" THEN "proxy.Dial" ELSE "socks5.Dial",
                     0, U_address(req[i]))>>)
    /\ UNCHANGED <<closesByCaller, h2Writes, req, ctx, uconn, alpn, resp, body, conns>>

\* src/unnamed/part_000:119: utls.UClient(dialConn, &config, HelloChrome_Auto)
U_UClient(i, c) ==
    [conn |-> c, ServerName |-> req[i].Hostname, InsecureSkipVerify |-> FALSE,
     clientHelloID |-> HelloChrome_Auto]

\* src/unnamed/part_000:112-120: the dial succeeds and the handshake starts
U_DialOk(i) ==
    /\ pc[i] = "dial"
    /\ LET c == Len(conns) + 1 IN
          /\ conns' = Append(conns,
                [dialedBy |-> i,
                 via |-> IF DialOp(i).op = "proxy.Dial" THEN "environment" ELSE "socks5",
                 address |-> DialOp(i).arg,
                 open |-> TRUE, closeCalls |-> 0, writes |-> 0, reads |-> 0])
          /\ uconn' = [uconn EXCEPT ![i] = U_UClient(i, c)]
          /\ trace' = Record(i, <<Ev("UClient", c, ""), Ev("HandshakeContext", c, "")>>)
    /\ pc' = [pc EXCEPT ![i] = "handshake"]
    /\ UNCHANGED <<t, closesByCaller, h2Writes, req, ctx, alpn, resp, err, body>>

\* src/unnamed/part_000:116-118
U_DialFail(i) ==
    /\ pc[i] = "dial"
    /\ pc' = [pc EXCEPT ![i] = "returned"]
    /\ err' = [err EXCEPT ![i] = <<"dial failed", "connect error">>]
    /\ UNCHANGED <<t, closesByCaller, h2Writes, req, ctx, uconn, alpn, resp, body,
                   trace, conns>>

\* src/unnamed/part_000:120, 124
U_HandshakeOk(i) ==
    /\ pc[i] = "handshake"
    /\ \E a \in ALPNs : alpn' = [alpn EXCEPT ![i] = a]
    /\ pc' = [pc EXCEPT ![i] = "doHttpOverConn"]
    /\ UNCHANGED <<t, closesByCaller, h2Writes, req, ctx, uconn, resp, err, body,
                   trace, conns>>

\* src/unnamed/part_000:120-123: the handshake fails (a TLS error, or the
\* caller's context is done) and the error is returned; nothing here calls
\* Close on dialConn or uTlsConn
U_HandshakeFail(i) ==
    /\ pc[i] = "handshake"
    /\ \E cause \in {"tls error"} \cup
                    (IF t.Ctx = "caller" THEN {"context canceled"} ELSE {}) :
          err' = [err EXCEPT ![i] = <<"utls handshake failed", cause>>]
    /\ pc' = [pc EXCEPT ![i] = "returned"]
    /\ UNCHANGED <<t, closesByCaller, h2Writes, req, ctx, uconn, alpn, resp, body,
                   trace, conns>>

\* src/unnamed/part_000:124-128: doHttpOverConn failed; uTlsConn.Close()
U_DispatchReturnsErr(i, inner) ==
    /\ conns' = CloseConn(conns, uconn[i].conn)
    /\ trace' = Record(i, <<Ev("Close", uconn[i].conn, "")>>)
    /\ err' = [err EXCEPT ![i] = <<"do http over conn failed">> \o inner]
    /\ pc' = [pc EXCEPT ![i] = "returned"]
    /\ UNCHANGED <<t, closesByCaller, ctx, uconn, alpn, resp, body>>

\* src/unnamed/part_000:129-130
U_WrapAndReturn(i, from) ==
    /\ resp' = [resp EXCEPT ![i] = [from |-> from, Body |-> "utlsHttpBody"]]
    /\ body' = [body EXCEPT ![i] = [NoBody EXCEPT !.conn = uconn[i].conn]]
    /\ pc' = [pc EXCEPT ![i] = "returned"]
    /\ UNCHANGED <<t, closesByCaller, ctx, uconn, alpn, err>>

\* src/unnamed/part_000:133-169: the transport NewClientConn is called on,
\* whether a field of the base is assigned, and the error for a base of
\* another type
U_getH2RoundTripper(base) ==
    IF base = "nil" THEN [rt |-> "new http2.Transport", writes |-> FALSE, err |-> "nil"]
    ELSE IF base = "*http.Transport" THEN
        [rt |-> "clone", writes |-> FALSE, err |-> "nil"]
    ELSE IF base = "*http2.Transport" THEN
        [rt |-> base, writes |-> TRUE, err |-> "nil"]
    ELSE [rt |-> "nil", writes |-> FALSE, err |-> "unsupported RoundTripper"]

\* src/unnamed/part_000:171-198, to the first operation on the connection
U_doHttpOverConn(i) ==
    /\ pc[i] = "doHttpOverConn"
    /\ LET c == uconn[i].conn
           h2 == U_getH2RoundTripper(t.Base)
       IN CASE alpn[i] = "h2" /\ h2.err = "nil" ->
                 /\ req' = [req EXCEPT ![i].proto = ProtoHTTP2]
                 /\ h2Writes' = IF h2.writes THEN h2Writes \cup {i} ELSE h2Writes
                 /\ trace' = Record(i, <<Ev("NewClientConn", c, h2.rt)>>)
                 /\ pc' = [pc EXCEPT ![i] = "NewClientConn"]
                 /\ UNCHANGED <<t, closesByCaller, ctx, uconn, alpn, resp, err, body, conns>>
            [] alpn[i] = "h2" /\ h2.err # "nil" ->
                 /\ req' = [req EXCEPT ![i].proto = ProtoHTTP2]
                 /\ U_DispatchReturnsErr(i, <<"get http/2 round tripper failed", h2.err>>)
                 /\ UNCHANGED h2Writes
            [] alpn[i] \in {"http/1.1", ""} ->
                 /\ req' = [req EXCEPT ![i].proto = ProtoHTTP11]
                 /\ trace' = Record(i, <<Ev("Write", c, "")>>)
                 /\ pc' = [pc EXCEPT ![i] = "Write"]
                 /\ UNCHANGED <<t, closesByCaller, h2Writes, ctx, uconn, alpn, resp, err, body, conns>>
            [] OTHER ->
                 /\ U_DispatchReturnsErr(i, <<"unsupported ALPN">>)
                 /\ UNCHANGED <<h2Writes, req>>

\* src/unnamed/part_000:177-181 with 146, 153, 163
U_NewClientConnOk(i) ==
    /\ pc[i] = "NewClientConn"
    /\ conns' = [conns EXCEPT ![uconn[i].conn].writes = @ + 1]
    /\ trace' = Record(i, <<Ev("h2.RoundTrip", uconn[i].conn, "")>>)
    /\ pc' = [pc EXCEPT ![i] = "h2.RoundTrip"]
    /\ UNCHANGED <<t, closesByCaller, h2Writes, req, ctx, uconn, alpn, resp, err, body>>

\* src/unnamed/part_000:177-180
U_NewClientConnFail(i) ==
    /\ pc[i] = "NewClientConn"
    /\ U_DispatchReturnsErr(i, <<"get http/2 round tripper failed", "h2 error">>)
    /\ UNCHANGED <<h2Writes, req>>

\* src/unnamed/part_000:181-185, 129-130
U_H2RoundTripOk(i) ==
    /\ pc[i] = "h2.RoundTrip"
    /\ conns' = [conns EXCEPT ![uconn[i].conn].writes = @ + 1,
                              ![uconn[i].conn].reads = @ + 1]
    /\ trace' = Record(i, <<Ev("wrap", uconn[i].conn, "")>>)
    /\ U_WrapAndReturn(i, "h2")
    /\ UNCHANGED <<h2Writes, req>>

\* src/unnamed/part_000:181-184
U_H2RoundTripFail(i) ==
    /\ pc[i] = "h2.RoundTrip"
    /\ U_DispatchReturnsErr(i, <<"do http/2 request failed", "h2 error">>)
    /\ UNCHANGED <<h2Writes, req>>

\* src/unnamed/part_000:190-194
U_WriteOk(i) ==
    /\ pc[i] = "Write"
    /\ conns' = [conns EXCEPT ![uconn[i].conn].writes = @ + 1]
    /\ trace' = Record(i, <<Ev("ReadResponse", uconn[i].conn, "")>>)
    /\ pc' = [pc EXCEPT ![i] = "ReadResponse"]
    /\ UNCHANGED <<t, closesByCaller, h2Writes, req, ctx, uconn, alpn, resp, err, body>>

\* src/unnamed/part_000:190-193
U_WriteFail(i) ==
    /\ pc[i] = "Write"
    /\ U_DispatchReturnsErr(i, <<"get http/1.1 round tripper failed", "write error">>)
    /\ UNCHANGED <<h2Writes, req>>

\* src/unnamed/part_000:194, 129-130
U_ReadResponseOk(i) ==
    /\ pc[i] = "ReadResponse"
    /\ conns' = [conns EXCEPT ![uconn[i].conn].reads = @ + 1]
    /\ trace' = Record(i, <<Ev("wrap", uconn[i].conn, "")>>)
    /\ U_WrapAndReturn(i, "http/1.1")
    /\ UNCHANGED <<h2Writes, req>>

\* src/unnamed/part_000:194
U_ReadResponseFail(i) ==
    /\ pc[i] = "ReadResponse"
    /\ U_DispatchReturnsErr(i, <<"read error">>)
    /\ UNCHANGED <<h2Writes, req>>

\* src/unnamed/part_000:29-32: defer u.UConn.Close(); return u.rawBody.Close()
U_Close(i) ==
    /\ pc[i] = "returned"
    /\ resp[i].Body = "utlsHttpBody"
    /\ body[i].closes < closesByCaller[i]
    /\ \E r \in {"nil", "close error"} :
          /\ trace' = Record(i, <<Ev("rawBody.Close", 0, r), Ev("Close", body[i].conn, "")>>)
          /\ conns' = CloseConn(conns, body[i].conn)
          /\ body' = [body EXCEPT ![i].closes = @ + 1, ![i].rawCloses = @ + 1,
                                  ![i].ret = r]
    /\ UNCHANGED <<t, closesByCaller, h2Writes, req, pc, ctx, uconn, alpn, resp, err>>

\* src/unnamed/part_000:25-27
U_Read(i) ==
    /\ pc[i] = "returned"
    /\ resp[i].Body = "utlsHttpBody"
    /\ \E r \in {"error"} \cup
                (IF conns[body[i].conn].open /\ body[i].rawCloses = 0
                 THEN {"ok"} ELSE {}) :
          body' = [body EXCEPT ![i].read = r]
    /\ UNCHANGED <<t, closesByCaller, h2Writes, req, pc, ctx, uconn, alpn, resp, err,
                   trace, conns>>

LegacyNext ==
    \E i \in Calls :
        \/ U_RoundTrip(i)
        \/ U_DialOk(i)
        \/ U_DialFail(i)
        \/ U_HandshakeOk(i)
        \/ U_HandshakeFail(i)
        \/ U_doHttpOverConn(i)
        \/ U_NewClientConnOk(i)
        \/ U_NewClientConnFail(i)
        \/ U_H2RoundTripOk(i)
        \/ U_H2RoundTripFail(i)
        \/ U_WriteOk(i)
        \/ U_WriteFail(i)
        \/ U_ReadResponseOk(i)
        \/ U_ReadResponseFail(i)
        \/ U_Close(i)
        \/ U_Read(i)

LegacySpec == LegacyInit /\ [][LegacyNext]_vars

\* C19: whenever UtlsHttpRoundTripper.RoundTrip has returned an error after
\* its dial succeeded, on a handshake failure or a dispatch failure, the
\* connection it dialed has been closed.
C19_LegacyErrorClosesConn ==
    \A i \in Calls :
        ReturnedErr(i) =>
            \A c \in ConnsOf(i) :
                /\ ~conns[c].open
                /\ conns[c].closeCalls >= 1

====
